---- MODULE Spec2Model ----
(***************************************************************************)
(* Model of src/main.py: split_to_patches cuts a georeferenced raster into *)
(* patch_size x patch_size windows, skips the windows whose validity mask  *)
(* is all zero and writes every other window as a tile {x}_{y}.tif.        *)
(*                                                                         *)
(* The raster library (rasterio) is outside the repository.  Its calls are *)
(* modelled by their documented effect: dataset_mask(window) returns the   *)
(* validity of the window's pixels, window_transform composes the source   *)
(* transform with the window's pixel offset, opening/reading/writing may   *)
(* fail.  Affine coefficients are integers here (exact arithmetic).        *)
(***************************************************************************)
EXTENDS Integers, Sequences, FiniteSets

\* ---------------------------------------------------------------- bounds
MaxW == 3
MaxH == 3
MaxArea == 6
MaxPatch == 2
MaxNegPatch == 1
MaxLog == 2

VARIABLES
    W, H,            \* src.width, src.height
    valid,           \* the source pixels <<col, row>> that the dataset mask marks valid
    src_transform,   \* src.transform, <<a, b, c, d, e, f>>
    src_profile,     \* src.profile
    patch_size, log_every,   \* arguments of split_to_patches
    pc,              \* "start", "loop", "done", "aborted"
    src_open,        \* the source handle is open (inside the with block)
    n_cols, n_rows, total_cells,
    base_profile,
    x, y,            \* position of the two nested for loops: the next cell
    processed, written, discarded,
    files,           \* out_dir: file name -> tile
    reads,           \* the windows whose pixel data was read (src.read)
    evaluated,       \* the cells whose mask was computed, in order
    progress,        \* the processed=... values of the progress lines printed
    summary,         \* <<>> or <<the summary block>>
    error            \* "none" or the exception that ended the run

vars == <<W, H, valid, src_transform, src_profile, patch_size, log_every, pc,
          src_open, n_cols, n_rows, total_cells, base_profile, x, y,
          processed, written, discarded, files, reads, evaluated, progress,
          summary, error>>

inputs == <<W, H, valid, src_transform, patch_size, log_every>>

\* ------------------------------------------------------------ profiles
\* A profile is a dict: a function from a set of keys.
OptKeys == {"blockxsize", "blockysize", "tiled", "BIGTIFF", "bigtiff", "compress"}
DimKeys == {"height", "width", "transform"}

MkProfile(D, tl, w, h, t) ==
    [k \in D \cup DimKeys |->
        CASE k = "height" -> h
          [] k = "width" -> w
          [] k = "transform" -> t
          [] k = "tiled" -> tl
          [] k = "blockxsize" -> 256
          [] k = "blockysize" -> 256
          [] k = "BIGTIFF" -> "YES"
          [] k = "bigtiff" -> "IF_SAFER"
          [] OTHER -> "lzw"]

\* dict.pop(k, None)
Pop(p, k) == [j \in DOMAIN p \ {k} |-> p[j]]

\* p.get("tiled", None) is True
TiledIsTrue(p) == "tiled" \in DOMAIN p /\ p["tiled"] = TRUE

\* A sanitizer that works on its argument instead of a copy.
sanitize_in_place(profile) ==
    LET p1 == Pop(Pop(profile, "blockxsize"), "blockysize")
        p2 == IF TiledIsTrue(p1) THEN [p1 EXCEPT !["tiled"] = FALSE] ELSE p1
        p3 == Pop(Pop(p2, "BIGTIFF"), "bigtiff")
    IN  [profile |-> p3, ret |-> p3]

\* _sanitize_profile_for_small_geotiffs: the argument after the call and
\* the returned profile.
sanitize_profile_for_small_geotiffs(profile) ==
    LET p0 == profile
        p1 == Pop(Pop(p0, "blockxsize"), "blockysize")
        p2 == IF TiledIsTrue(p1) THEN [p1 EXCEPT !["tiled"] = FALSE] ELSE p1
        p3 == Pop(Pop(p2, "BIGTIFF"), "bigtiff")
    IN  [profile |-> profile, ret |-> p3]

\* ---------------------------------------------------------------- grid
\* math.ceil(a / b) for a >= 0 and b # 0
ceil_div(a, b) == IF b > 0 THEN (a + b - 1) \div b ELSE -(a \div (-b))

Min(a, b) == IF a <= b THEN a ELSE b

\* A column offset that counts cells, not pixels.
col_off_cells(cx, ps) == cx

col_off(cx, ps) == cx * ps

row_off(cy, ps) == cy * ps

\* A window width that is not clipped at the right edge.
win_w_unclipped(cx, ps, w) == ps

win_w(cx, ps, w) == Min(ps, w - col_off(cx, ps))

win_h(cy, ps, h) == Min(ps, h - row_off(cy, ps))

\* Window(col_off=col_off, row_off=row_off, width=win_w, height=win_h)
Window(cx, cy) ==
    [col_off |-> col_off(cx, patch_size), row_off |-> row_off(cy, patch_size),
     width |-> win_w(cx, patch_size, W), height |-> win_h(cy, patch_size, H)]

\* The source pixels of a window.
PixelsOf(win) ==
    {p \in (0 .. W - 1) \X (0 .. H - 1) :
        /\ win.col_off <= p[1] /\ p[1] < win.col_off + win.width
        /\ win.row_off <= p[2] /\ p[2] < win.row_off + win.height}

\* src.dataset_mask(window): the window-local pixels that are valid.
dataset_mask(win) ==
    {<<p[1] - win.col_off, p[2] - win.row_off>> : p \in PixelsOf(win) \cap valid}

\* A test that discards every window with an invalid pixel.
mask_all_zero_any(win) == PixelsOf(win) \ valid # {}

\* mask.max() == 0
mask_all_zero(win) == dataset_mask(win) = {}

\* window_transform(window, transform) = transform * Affine.translation(col_off, row_off)
window_transform(win, t) ==
    <<t[1], t[2], t[1] * win.col_off + t[2] * win.row_off + t[3],
      t[4], t[5], t[4] * win.col_off + t[5] * win.row_off + t[6]>>

\* An affine transform applied to pixel (c, r).
Apply(t, c, r) == <<t[1] * c + t[2] * r + t[3], t[4] * c + t[5] * r + t[6]>>

\* An update that writes into the base profile itself.
out_profile_shared(base, win, t) ==
    LET o == [k \in DOMAIN base \cup DimKeys |->
                CASE k = "height" -> win.height
                  [] k = "width" -> win.width
                  [] k = "transform" -> window_transform(win, t)
                  [] OTHER -> base[k]]
    IN  [base |-> o, out |-> o]

\* out_profile = base_profile.copy(); out_profile.update(height, width, transform):
\* the base profile after it and the tile's profile.
out_profile(base, win, t) ==
    LET o == [k \in DOMAIN base \cup DimKeys |->
                CASE k = "height" -> win.height
                  [] k = "width" -> win.width
                  [] k = "transform" -> window_transform(win, t)
                  [] OTHER -> base[k]]
    IN  [base |-> base, out |-> o]

\* ----------------------------------------------------------- file names
Digit(d) == <<"0", "1", "2", "3", "4", "5", "6", "7", "8", "9">>[d + 1]

RECURSIVE Str(_)
\* str(n) of f"{n}" for n >= 0
Str(n) == IF n < 10 THEN <<Digit(n)>> ELSE Str(n \div 10) \o <<Digit(n % 10)>>

\* f"{x}_{y}.tif"
out_name(cx, cy) == Str(cx) \o <<"_">> \o Str(cy) \o <<".", "t", "i", "f">>

\* ------------------------------------------------------------ the run
\* A loop order that walks the grid column by column.
next_cell_column_major(cx, cy, nc, nr) ==
    IF cy + 1 < nr THEN <<cx, cy + 1>> ELSE <<cx + 1, 0>>

\* for y in range(n_rows): for x in range(n_cols): the cell after (cx, cy)
next_cell(cx, cy, nc, nr) == IF cx + 1 < nc THEN <<cx + 1, cy>> ELSE <<0, cy + 1>>

\* The two for loops have a cell left.
HasCell == 0 <= x /\ x < n_cols /\ 0 <= y /\ y < n_rows

Pixels(w, h) == (0 .. w - 1) \X (0 .. h - 1)

NorthUp == <<2, 0, 100, 0, -2, 200>>
Rotated == <<3, 1, -7, -1, 2, 5>>

EmptyDict == [k \in {} |-> 0]

InitRun ==
    /\ pc = "start" /\ src_open = FALSE /\ error = "none"
    /\ n_cols = 0 /\ n_rows = 0 /\ total_cells = 0
    /\ base_profile = EmptyDict
    /\ x = 0 /\ y = 0
    /\ processed = 0 /\ written = 0 /\ discarded = 0
    /\ files = EmptyDict /\ reads = {}
    /\ evaluated = <<>> /\ progress = <<>> /\ summary = <<>>

\* Every raster up to MaxW x MaxH and MaxArea pixels with every validity
\* mask, two sources.
Init ==
    /\ W \in 1 .. MaxW /\ H \in 1 .. MaxH
    /\ W * H <= MaxArea
    /\ valid \in SUBSET Pixels(W, H)
    /\ patch_size \in -MaxNegPatch .. MaxPatch
    /\ log_every \in 0 .. MaxLog
    /\ \E tiledSource \in BOOLEAN :
         /\ src_transform = IF tiledSource THEN NorthUp ELSE Rotated
         /\ src_profile = MkProfile(IF tiledSource THEN OptKeys ELSE {"compress"},
                                    TRUE, W, H, src_transform)
    /\ InitRun

\* Every source profile, on a 2 x 2 raster.
InitProfiles ==
    /\ W = 2 /\ H = 2
    /\ valid \in {{}, {<<1, 1>>}, Pixels(2, 2)}
    /\ patch_size \in 0 .. MaxPatch
    /\ log_every = 1
    /\ src_transform = NorthUp
    /\ \E D \in SUBSET OptKeys, tl \in BOOLEAN :
         src_profile = MkProfile(D, tl, W, H, src_transform)
    /\ InitRun

\* rasterio.open(src_path) or os.makedirs fails (lines 46, 60).
OpenFail ==
    /\ pc = "start"
    /\ \E e \in {"open", "makedirs"} : error' = e
    /\ pc' = "aborted"
    /\ src_open' = FALSE
    /\ UNCHANGED <<inputs, src_profile, n_cols, n_rows, total_cells, base_profile,
                   x, y, processed, written, discarded, files, reads, evaluated,
                   progress, summary>>

\* patch_size = 0: w / patch_size raises ZeroDivisionError inside the with block (line 62).
PlanZeroDivision ==
    /\ pc = "start" /\ patch_size = 0
    /\ error' = "ZeroDivisionError"
    /\ pc' = "aborted"
    /\ src_open' = FALSE
    /\ UNCHANGED <<inputs, src_profile, n_cols, n_rows, total_cells, base_profile,
                   x, y, processed, written, discarded, files, reads, evaluated,
                   progress, summary>>

\* Lines 44-76: open the source, plan the grid, sanitize the profile, zero the counters.
Plan ==
    /\ pc = "start" /\ patch_size # 0
    /\ src_open' = TRUE
    /\ n_cols' = ceil_div(W, patch_size)
    /\ n_rows' = ceil_div(H, patch_size)
    /\ total_cells' = n_cols' * n_rows'
    /\ LET s == sanitize_profile_for_small_geotiffs(src_profile)
       IN  src_profile' = s.profile /\ base_profile' = s.ret
    /\ processed' = 0 /\ written' = 0 /\ discarded' = 0
    /\ x' = 0 /\ y' = 0
    /\ pc' = "loop"
    /\ UNCHANGED <<inputs, files, reads, evaluated, progress, summary, error>>

Advance ==
    LET n == next_cell(x, y, n_cols, n_rows) IN x' = n[1] /\ y' = n[2]

\* A discard that forgets to count the cell as processed.
DiscardCell_uncounted ==
    /\ pc = "loop" /\ HasCell
    /\ mask_all_zero(Window(x, y))
    /\ evaluated' = Append(evaluated, <<x, y>>)
    /\ discarded' = discarded + 1
    /\ progress' = IF log_every # 0 /\ processed % log_every = 0
                   THEN Append(progress, processed) ELSE progress
    /\ Advance
    /\ UNCHANGED <<inputs, src_profile, pc, src_open, n_cols, n_rows, total_cells,
                   base_profile, processed, written, files, reads, summary, error>>

\* Lines 90-99: the window's mask is all zero.
DiscardCell ==
    /\ pc = "loop" /\ HasCell
    /\ mask_all_zero(Window(x, y))
    /\ evaluated' = Append(evaluated, <<x, y>>)
    /\ discarded' = discarded + 1
    /\ processed' = processed + 1
    /\ progress' = IF log_every # 0 /\ processed' % log_every = 0
                   THEN Append(progress, processed') ELSE progress
    /\ Advance
    /\ UNCHANGED <<inputs, src_profile, pc, src_open, n_cols, n_rows, total_cells,
                   base_profile, written, files, reads, summary, error>>

\* Lines 101-124: read the window, build its profile, write the tile.
WriteCell ==
    /\ pc = "loop" /\ HasCell
    /\ ~mask_all_zero(Window(x, y))
    /\ LET win == Window(x, y)
           op == out_profile(base_profile, win, src_transform)
           name == out_name(x, y)
           tile == [profile |-> op.out, data |-> win, mask |-> dataset_mask(win),
                    complete |-> TRUE]
       IN  /\ reads' = reads \cup {win}
           /\ base_profile' = op.base
           /\ files' = [n \in DOMAIN files \cup {name} |->
                           IF n = name THEN tile ELSE files[n]]
    /\ evaluated' = Append(evaluated, <<x, y>>)
    /\ progress' = IF log_every # 0 /\ processed % log_every = 0 /\ processed # 0
                   THEN Append(progress, processed) ELSE progress
    /\ written' = written + 1
    /\ processed' = processed + 1
    /\ Advance
    /\ UNCHANGED <<inputs, src_profile, pc, src_open, n_cols, n_rows, total_cells,
                   discarded, summary, error>>

\* A failure handler that skips the cell and goes on.
FailCell_skip ==
    /\ pc = "loop" /\ HasCell
    /\ error' = "mask"
    /\ Advance
    /\ UNCHANGED <<inputs, src_profile, pc, src_open, n_cols, n_rows, total_cells,
                   base_profile, processed, written, discarded, files, reads,
                   evaluated, progress, summary>>

\* dataset_mask, read or the tile's write raises at cell (x, y): the exception
\* leaves the loops and the with block (which closes the source).
FailCell ==
    /\ pc = "loop" /\ HasCell
    /\ LET win == Window(x, y)
           op == out_profile(base_profile, win, src_transform)
           name == out_name(x, y)
           partial == [profile |-> op.out, data |-> win, mask |-> {},
                       complete |-> FALSE]
       IN  \/ /\ error' = "mask"
              /\ UNCHANGED <<evaluated, reads, base_profile, files, progress>>
           \/ /\ ~mask_all_zero(win)
              /\ error' = "read"
              /\ evaluated' = Append(evaluated, <<x, y>>)
              /\ UNCHANGED <<reads, base_profile, files, progress>>
           \/ /\ ~mask_all_zero(win)
              /\ error' = "write"
              /\ evaluated' = Append(evaluated, <<x, y>>)
              /\ reads' = reads \cup {win}
              /\ base_profile' = op.base
              /\ progress' = IF log_every # 0 /\ processed % log_every = 0 /\ processed # 0
                             THEN Append(progress, processed) ELSE progress
              \* the file may or may not have been created before the failure
              /\ \/ files' = files
                 \/ files' = [n \in DOMAIN files \cup {name} |->
                                 IF n = name THEN partial ELSE files[n]]
    /\ pc' = "aborted"
    /\ src_open' = FALSE
    /\ UNCHANGED <<inputs, src_profile, n_cols, n_rows, total_cells, x, y,
                   processed, written, discarded, summary>>

\* Lines 126-131: the loops are exhausted; print the summary, leave the with block.
Summary ==
    /\ pc = "loop" /\ ~HasCell
    /\ summary' = <<[total_cells |-> total_cells, written |-> written,
                     discarded |-> discarded]>>
    /\ src_open' = FALSE
    /\ pc' = "done"
    /\ UNCHANGED <<inputs, src_profile, n_cols, n_rows, total_cells, base_profile,
                   x, y, processed, written, discarded, files, reads, evaluated,
                   progress, error>>

Next ==
    \/ OpenFail
    \/ PlanZeroDivision
    \/ Plan
    \/ DiscardCell
    \/ WriteCell
    \/ FailCell
    \/ Summary

Spec == Init /\ [][Next]_vars

SpecProfiles == InitProfiles /\ [][Next]_vars

\* ============================================================== claims
\* The grid cells of the plan.
Cells == (0 .. n_cols - 1) \X (0 .. n_rows - 1)

\* Source pixel p lies in the nominal square of cell c.
InCell(p, c) ==
    /\ c[1] * patch_size <= p[1] /\ p[1] < (c[1] + 1) * patch_size
    /\ c[2] * patch_size <= p[2] /\ p[2] < (c[2] + 1) * patch_size

\* Cell c has a valid pixel.
NonZero(c) == \E p \in valid : InCell(p, c)

\* Row-major number of cell c.
IndexOf(c) == c[2] * n_cols + c[1]

\* C1: for patch_size > 0 the plan has n_cols = ceil(W / patch_size) and
\* n_rows = ceil(H / patch_size), every source pixel lies in exactly one
\* window, and every window lies inside the raster.
C1_GridTilesRaster ==
    (pc \in {"loop", "done"} /\ patch_size > 0) =>
        /\ (n_cols - 1) * patch_size < W /\ W <= n_cols * patch_size
        /\ (n_rows - 1) * patch_size < H /\ H <= n_rows * patch_size
        /\ \A c \in Cells :
              LET win == Window(c[1], c[2])
              IN  /\ win.col_off = c[1] * patch_size /\ win.row_off = c[2] * patch_size
                  /\ win.width >= 1 /\ win.height >= 1
                  /\ win.col_off >= 0 /\ win.row_off >= 0
                  /\ win.col_off + win.width <= W
                  /\ win.row_off + win.height <= H
        /\ \A p \in Pixels(W, H) :
              Cardinality({c \in Cells :
                  LET win == Window(c[1], c[2])
                  IN  /\ win.col_off <= p[1] /\ p[1] < win.col_off + win.width
                      /\ win.row_off <= p[2] /\ p[2] < win.row_off + win.height}) = 1

\* A plan whose right column is clipped: 3 pixels wide, patches of 2.
C1_Witness == pc = "done" /\ W = 3 /\ patch_size = 2 /\ n_cols = 2 /\ H = 1

\* C2: processed = written + discarded before and after every step, a step
\* that completes a cell adds 1 to processed and 1 to exactly one of written
\* and discarded, and no counter ever decreases.
C2_CountersStep ==
    [][/\ processed = written + discarded
       /\ processed' = written' + discarded'
       /\ processed' >= processed /\ written' >= written /\ discarded' >= discarded
       /\ (pc = "loop" /\ pc' = "loop") =>
             /\ processed' = processed + 1
             /\ \/ written' = written + 1 /\ discarded' = discarded
                \/ written' = written /\ discarded' = discarded + 1]_vars

\* A run that has written a cell and discarded a cell.
C2_Witness == pc = "loop" /\ written >= 1 /\ discarded >= 1

\* C3: when the summary is printed, written + discarded = total_cells =
\* n_cols * n_rows, for every patch_size with which the run completes.
C3_SummaryCountsAllCells ==
    pc = "done" =>
        /\ total_cells = n_cols * n_rows
        /\ summary[1].total_cells = total_cells
        /\ written + discarded = total_cells

\* C4: a file {x}_{y}.tif exists only for cells whose mask has a nonzero
\* value and whose data was read; an all-zero window is never read or
\* written; names of distinct cells differ; after a completed run the files
\* are exactly the non-discarded cells' and their number is written.
C4_FilesAreNonEmptyCells ==
    /\ \A c \in Cells : \A d \in Cells :
          c # d => out_name(c[1], c[2]) # out_name(d[1], d[2])
    /\ \A c \in Cells :
          ~NonZero(c) =>
              /\ out_name(c[1], c[2]) \notin DOMAIN files
              /\ \A w \in reads :
                    ~(w.col_off = c[1] * patch_size /\ w.row_off = c[2] * patch_size)
    /\ pc = "done" =>
          /\ \A c \in Cells :
                NonZero(c) <=>
                    /\ out_name(c[1], c[2]) \in DOMAIN files
                    /\ files[out_name(c[1], c[2])].complete
          /\ DOMAIN files = {out_name(c[1], c[2]) : c \in {d \in Cells : NonZero(d)}}
          /\ Cardinality(DOMAIN files) = written

\* A completed run with a written cell and a discarded cell.
C4_Witness == pc = "done" /\ written >= 1 /\ discarded >= 1 /\ written + discarded >= 3

\* C5: a tile's profile is the sanitized base profile with height, width and
\* transform overridden, height and width being the clipped window size;
\* writing tiles leaves the base profile as the sanitizer returned it.
C5_TileProfile ==
    /\ (pc \in {"loop", "done"} \/ error \in {"mask", "read", "write"}) =>
          base_profile = sanitize_profile_for_small_geotiffs(src_profile).ret
    /\ \A c \in Cells :
          out_name(c[1], c[2]) \in DOMAIN files =>
              LET pr == files[out_name(c[1], c[2])].profile
              IN  /\ DOMAIN pr = DOMAIN base_profile \cup DimKeys
                  /\ \A k \in DOMAIN base_profile \ DimKeys : pr[k] = base_profile[k]
                  /\ pr["width"] = Min(patch_size, W - c[1] * patch_size)
                  /\ pr["height"] = Min(patch_size, H - c[2] * patch_size)
                  /\ pr["width"] <= W - c[1] * patch_size
                  /\ pr["height"] <= H - c[2] * patch_size

\* A right-edge tile narrower than patch_size was written after another tile.
C5_Witness ==
    /\ pc = "done" /\ written >= 2
    /\ \E n \in DOMAIN files : files[n].profile["width"] < patch_size

\* C6: a tile's transform maps tile pixel (c, r) to the world coordinate the
\* source transform gives source pixel (x * patch_size + c, y * patch_size + r).
C6_TileTransform ==
    \A c \in Cells :
        out_name(c[1], c[2]) \in DOMAIN files =>
            LET t == files[out_name(c[1], c[2])].profile["transform"]
            IN  \A tc \in 0 .. MaxPatch : \A tr \in 0 .. MaxPatch :
                    Apply(t, tc, tr) =
                        Apply(src_transform, c[1] * patch_size + tc,
                              c[2] * patch_size + tr)

\* A tile off the origin in both directions, rotated source transform.
C6_Witness ==
    /\ src_transform = Rotated /\ patch_size = 1
    /\ out_name(1, 1) \in DOMAIN files
    /\ files[out_name(1, 1)].profile["transform"] = <<3, 1, -3, -1, 2, 6>>

\* The profile the sanitizer must return for input p: no block sizes, no
\* big-file flag, tiled off if it was on, every other key as in p.
IsSanitized(p, q) ==
    /\ DOMAIN q = DOMAIN p \ {"blockxsize", "blockysize", "BIGTIFF", "bigtiff"}
    /\ \A k \in DOMAIN q :
          IF k = "tiled" THEN q[k] = (IF p[k] = TRUE THEN FALSE ELSE p[k])
          ELSE q[k] = p[k]

\* C7: the sanitizer returns a new profile without blockxsize, blockysize,
\* BIGTIFF and bigtiff, with tiled off if the input had it on and every
\* other key as in the input, and leaves its input as it was.
C7_SanitizeIsPure ==
    [][(pc = "start" /\ pc' = "loop") =>
          /\ src_profile' = src_profile
          /\ IsSanitized(src_profile, base_profile')]_vars

\* A tiled source with block sizes and a big-file flag was sanitized.
C7_Witness ==
    /\ pc = "loop"
    /\ {"tiled", "blockxsize", "BIGTIFF", "compress"} \subseteq DOMAIN src_profile
    /\ src_profile["tiled"] = TRUE
    /\ base_profile["tiled"] = FALSE
    /\ "compress" \in DOMAIN base_profile

\* C8: a failure of the mask, the read or the write at a cell ends the run
\* there: the failing cell is not counted, no later cell is evaluated or
\* written, earlier tiles stay complete on disk, no summary is printed and
\* the source is closed.
C8_FailureAborts ==
    error \in {"mask", "read", "write"} =>
        /\ pc = "aborted"
        /\ ~src_open
        /\ summary = <<>>
        /\ processed = IndexOf(<<x, y>>)
        /\ processed = written + discarded
        /\ \A i \in 1 .. Len(evaluated) : IndexOf(evaluated[i]) <= processed
        /\ \A c \in Cells :
              /\ (IndexOf(c) < processed /\ NonZero(c)) =>
                    /\ out_name(c[1], c[2]) \in DOMAIN files
                    /\ files[out_name(c[1], c[2])].complete
              /\ IndexOf(c) > processed => out_name(c[1], c[2]) \notin DOMAIN files
        /\ Cardinality({n \in DOMAIN files : files[n].complete}) = written

\* A write failed after an earlier tile had been written.
C8_Witness == pc = "aborted" /\ error = "write" /\ written >= 1 /\ x + 1 < n_cols

\* C9: with log_every = N > 0 a completed run has printed exactly one
\* progress line processed = k * N for every positive multiple k * N that
\* processed reached; with log_every = 0 it has printed none.
C9_ProgressEveryN ==
    pc = "done" =>
        /\ log_every = 0 => progress = <<>>
        /\ log_every > 0 =>
              \A k \in 1 .. processed :
                  k % log_every = 0 =>
                      Cardinality({i \in DOMAIN progress : progress[i] = k}) = 1

\* C10: cells are evaluated in row-major order, each once, one at a time:
\* the i-th evaluated cell is cell number i - 1, and when a cell starts
\* processed is its number.
C10_RowMajorOrder ==
    /\ \A i \in 1 .. Len(evaluated) :
          evaluated[i] = <<(i - 1) % n_cols, (i - 1) \div n_cols>>
    /\ pc \in {"loop", "done"} => Len(evaluated) = processed
    /\ (pc = "loop" /\ HasCell) => IndexOf(<<x, y>>) = processed
    /\ (pc = "done" /\ patch_size > 0) =>
          {evaluated[i] : i \in 1 .. Len(evaluated)} = Cells

\* A completed run over a grid with two columns and two rows.
C10_Witness == pc = "done" /\ n_cols >= 2 /\ n_rows >= 2 /\ processed = n_cols * n_rows

====
